---- MODULE Spec2Model ----
(***************************************************************************)
(* A model of the Pipedream Connect integration of the workflow builder:   *)
(*   - the server module (lib/pipedream/server), the status route and the  *)
(*     executable action step;                                             *)
(*   - the action-configuration form (PipedreamActionConfig) and its       *)
(*     debounced persistence into the workflow node's config.              *)
(* JavaScript values are modelled by strings; Undefined and Null are       *)
(* sentinels.  A JS object (a props mapping) is a sequence of <<key,       *)
(* value>> pairs in insertion order; JSON text is a sequence of tokens.    *)
(***************************************************************************)
EXTENDS Integers, Sequences, FiniteSets, TLC

VARIABLES
    \* ---- process.env (server) ----
    PIPEDREAM_CLIENT_ID,
    PIPEDREAM_CLIENT_SECRET,
    PIPEDREAM_PROJECT_ID,
    PIPEDREAM_PROJECT_ENVIRONMENT,
    PIPEDREAM_ALLOWED_ORIGINS,
    EXTERNAL_USER_ID,
    VERCEL_URL,
    \* the last completed server operation, its outcome and the calls it made
    lastOp,
    \* ---- the action-config form (PipedreamActionConfig) ----
    config,                  \* the workflow node's config (pipedream* keys)
    mounted,                 \* the form is on screen
    raised,                  \* an exception escaped the component
    sessionUserId,           \* useSession().data?.user?.id
    externalUserId,          \* usePipedreamUserId() state
    selectedApp,             \* useState: the app's nameSlug, or Undefined
    selectedComponent,       \* useState: the action's key, or Undefined
    configuredProps,         \* useState: the props mapping
    lastSavedPropsJson,      \* useRef<string>
    lastSavedComponentKey,   \* useRef<string>
    initialPropsCountRef,    \* useRef<number>
    hasReceivedUserInputRef, \* useRef<boolean>
    timeoutRef,              \* useDebouncedPersist: id of the last timer, 0 = null
    pendingPropsRef,         \* useDebouncedPersist: props awaiting persist
    timers,                  \* the event loop's armed timers: id -> ms elapsed
    isTesting,               \* useState: a test run is in progress
    testCall,                \* the runPipedreamAction call handleTest awaits
    toasts,                  \* the notifications shown by the last step of handleTest
    \* ---- the settings panel (PipedreamSettings) ----
    settingsMounted,         \* the panel is on screen
    status,                  \* useState: "loading" | "enabled" | "disabled"
    statusFetch,             \* the panel's fetch of the status route is in flight
    \* ---- PipedreamProvider ----
    providerUserId,          \* usePipedreamUserId's useState in the provider
    \* ---- observations ----
    lastEvent,               \* the event handled last and its arguments
    persisted,               \* persistFn invocations made by the last event
    userProps,               \* the mapping last set for the selected action
    edited,                  \* an update was accepted or app/action changed since mount
    awaitingEmission,        \* the app or action was changed and the vendor form
                             \* has emitted nothing since
    accepted                 \* the accepted updates not yet handed to persist:
                             \* the props of the last one, and how many

envVars == <<PIPEDREAM_CLIENT_ID, PIPEDREAM_CLIENT_SECRET, PIPEDREAM_PROJECT_ID,
             PIPEDREAM_PROJECT_ENVIRONMENT, PIPEDREAM_ALLOWED_ORIGINS,
             EXTERNAL_USER_ID, VERCEL_URL>>

serverVars == <<envVars, lastOp>>

formVars == <<config, mounted, raised, sessionUserId, externalUserId, selectedApp,
              selectedComponent, configuredProps, lastSavedPropsJson,
              lastSavedComponentKey, initialPropsCountRef, hasReceivedUserInputRef,
              timeoutRef, pendingPropsRef, timers, isTesting, testCall, toasts>>

testVars == <<isTesting, testCall, toasts>>

providerVars == <<providerUserId>>

settingsVars == <<settingsMounted, status, statusFetch>>

observerVars == <<lastEvent, persisted, userProps, edited, awaitingEmission, accepted>>

vars == <<serverVars, formVars, providerVars, settingsVars, observerVars>>

----------------------------------------------------------------------------
(* JavaScript values *)

Undefined == "<undefined>"
Null == "<null>"

\* JS truthiness of a string-or-undefined value.
Truthy(v) == v # Undefined /\ v # Null /\ v # ""

\* a && b : the first falsy operand, else the last.
And(a, b) == IF Truthy(a) THEN b ELSE a

\* a || b : the first truthy operand, else the last.
Or(a, b) == IF Truthy(a) THEN a ELSE b

----------------------------------------------------------------------------
(* JS objects as insertion-ordered sequences of <<key, value>> pairs *)

EmptyObject == <<>>

\* Object.keys(o), in order (a key whose value is undefined is still a key).
ObjectKeys(o) == [i \in 1..Len(o) |-> o[i][1]]

HasKey(o, k) == \E i \in 1..Len(o) : o[i][1] = k

\* o[k] : undefined when k is not a property.
Get(o, k) == IF HasKey(o, k)
             THEN o[CHOOSE i \in 1..Len(o) : o[i][1] = k][2]
             ELSE Undefined

\* o[k] = v : an existing key keeps its position, a new one is appended.
Put(o, k, v) == IF HasKey(o, k)
                THEN [i \in 1..Len(o) |-> IF o[i][1] = k THEN <<k, v>> ELSE o[i]]
                ELSE Append(o, <<k, v>>)

----------------------------------------------------------------------------
(* JSON.stringify / JSON.parse on token sequences *)

RECURSIVE Members(_)
\* The members of an object literal, comma separated; a member whose value
\* is undefined is omitted by JSON.stringify.
Members(o) ==
    IF o = <<>> THEN <<>>
    ELSE LET rest == Members(Tail(o))
             k == Head(o)[1]
             v == Head(o)[2]
         IN IF v = Undefined THEN rest
            ELSE IF rest = <<>> THEN <<k, ":", v>>
            ELSE <<k, ":", v, ",">> \o rest

JSON_stringify(o) == <<"{">> \o Members(o) \o <<"}">>

Punctuation == {"{", "}", ":", ","}

ParseFail == [ok |-> FALSE]
ParseOk(o) == [ok |-> TRUE, value |-> o]

RECURSIVE ParseMembers(_, _)
\* key ":" value ("," key ":" value)*
ParseMembers(t, acc) ==
    IF Len(t) < 3 THEN ParseFail
    ELSE IF t[1] \in Punctuation \/ t[2] # ":" \/ t[3] \in Punctuation THEN ParseFail
    ELSE LET acc2 == Put(acc, t[1], t[3])
         IN IF Len(t) = 3 THEN ParseOk(acc2)
            ELSE IF t[4] # "," THEN ParseFail
            ELSE ParseMembers(SubSeq(t, 5, Len(t)), acc2)

\* Mutant of JSON_parse: every well-bracketed text parses to the empty object.
JSON_parseBrackets(t) ==
    IF Len(t) < 2 \/ t[1] # "{" \/ t[Len(t)] # "}" THEN ParseFail
    ELSE ParseOk(EmptyObject)

\* JSON.parse of an object text: the object, or a SyntaxError (ok = FALSE).
JSON_parse(t) ==
    IF Len(t) < 2 \/ t[1] # "{" \/ t[Len(t)] # "}" THEN ParseFail
    ELSE IF Len(t) = 2 THEN ParseOk(EmptyObject)
    ELSE ParseMembers(SubSeq(t, 2, Len(t) - 1), EmptyObject)

----------------------------------------------------------------------------
(* lib/pipedream/server *)

ClientIds == {Undefined, "", "client-id"}
ClientSecrets == {Undefined, "", "client-secret"}
ProjectIds == {Undefined, "", "proj_abc"}
ProjectEnvironments == {Undefined, "production", "development", "Production"}
EnvUserIds == {Undefined, "", "env-user"}
\* VERCEL_URL: the deployment's host name, set by the platform.
VercelUrls == {Undefined, "my-app.vercel.app"}

isPipedreamConfigured ==
    And(And(PIPEDREAM_CLIENT_ID, PIPEDREAM_CLIENT_SECRET), PIPEDREAM_PROJECT_ID)

\* Mutant of getProjectEnvironment: every value but "development" selects
\* Production.
getProjectEnvironmentUnlessDevelopment ==
    IF PIPEDREAM_PROJECT_ENVIRONMENT = "development" THEN "Development" ELSE "Production"

\* The environment name mapped to the vendor's project environment.
getProjectEnvironment ==
    IF PIPEDREAM_PROJECT_ENVIRONMENT = "production" THEN "Production" ELSE "Development"

NullClient == [type |-> "null"]

\* Mutant of client: the client secret is not required.
clientWithoutSecret ==
    IF Truthy(And(PIPEDREAM_CLIENT_ID, PIPEDREAM_PROJECT_ID))
    THEN [type |-> "PipedreamClient",
          clientId |-> PIPEDREAM_CLIENT_ID,
          clientSecret |-> PIPEDREAM_CLIENT_SECRET,
          projectId |-> PIPEDREAM_PROJECT_ID,
          projectEnvironment |-> getProjectEnvironment]
    ELSE NullClient

\* The backend client, created at module load only if credentials are available.
client ==
    IF Truthy(And(And(And(isPipedreamConfigured, PIPEDREAM_CLIENT_ID),
                      PIPEDREAM_CLIENT_SECRET), PIPEDREAM_PROJECT_ID))
    THEN [type |-> "PipedreamClient",
          clientId |-> PIPEDREAM_CLIENT_ID,
          clientSecret |-> PIPEDREAM_CLIENT_SECRET,
          projectId |-> PIPEDREAM_PROJECT_ID,
          projectEnvironment |-> getProjectEnvironment]
    ELSE NullClient

\* What the vendor service answers to one call.
VendorOutcomes == {[kind |-> "resolve", data |-> "vendor-result"],
                   [kind |-> "reject", message |-> "vendor error"]}

Returned(v, calls) == [kind |-> "return", value |-> v, sdkCalls |-> calls]
Thrown(m, calls) == [kind |-> "throw", message |-> m, sdkCalls |-> calls]

MsgNotConfiguredRun == "Pipedream is not configured."

\* runPipedreamAction(opts): forwards to client.actions.run, or throws when
\* there is no client.
runPipedreamAction(opts, vendor) ==
    IF client = NullClient
    THEN Thrown(MsgNotConfiguredRun, <<>>)
    ELSE LET call == [method |-> "actions.run",
                      id |-> opts.componentKey,
                      externalUserId |-> opts.externalUserId,
                      configuredProps |-> opts.configuredProps]
         IN IF vendor.kind = "resolve"
            THEN Returned(vendor.data, <<call>>)
            ELSE Thrown(vendor.message, <<call>>)

MsgNotConfiguredToken == "Pipedream is not configured. Please add PIPEDREAM_CLIENT_ID, PIPEDREAM_CLIENT_SECRET, and PIPEDREAM_PROJECT_ID environment variables."

TokenOutcomes == {[kind |-> "resolve", token |-> "ctok_1", expiresAt |-> "2030-01-01",
                   connectLinkUrl |-> "https://pipedream.com/_static/connect.html"],
                  [kind |-> "reject", message |-> "vendor error"]}

\* JSON text of the origins allow-list, as deployments set it.
OriginsTexts == {<<"[", "https://app.example", ",", "https://b.example", "]">>}
\* Text that is not JSON (the closing bracket is missing).
MalformedOriginsTexts == {<<"[", "https://app.example">>}
AllowedOriginsValues ==
    {[type |-> "undefined"]} \cup
    {[type |-> "string", text |-> t] : t \in OriginsTexts \cup MalformedOriginsTexts \cup {<<>>}}

RECURSIVE ParseElements(_, _)
\* item ("," item)*
ParseElements(t, acc) ==
    IF Len(t) < 1 \/ t[1] \in Punctuation \cup {"[", "]"} THEN ParseFail
    ELSE IF Len(t) = 1 THEN ParseOk(Append(acc, t[1]))
    ELSE IF t[2] # "," THEN ParseFail
    ELSE ParseElements(SubSeq(t, 3, Len(t)), Append(acc, t[1]))

\* JSON.parse of an array text.
JSON_parseArray(t) ==
    IF Len(t) < 2 \/ t[1] # "[" \/ t[Len(t)] # "]" THEN ParseFail
    ELSE IF Len(t) = 2 THEN ParseOk(<<>>)
    ELSE ParseElements(SubSeq(t, 2, Len(t) - 1), <<>>)

\* Mutant of serverConnectTokenCreate: the allow-list is not read.
serverConnectTokenCreateNoOrigins(opts, vendor) ==
    IF client = NullClient
    THEN Thrown(MsgNotConfiguredToken, <<>>)
    ELSE LET call == [method |-> "tokens.create",
                      externalUserId |-> opts.externalUserId,
                      allowedOrigins |-> <<>>]
         IN IF vendor.kind = "resolve"
            THEN Returned([token |-> vendor.token,
                           expiresAt |-> vendor.expiresAt,
                           connectLinkUrl |-> vendor.connectLinkUrl],
                          <<call>>)
            ELSE Thrown(vendor.message, <<call>>)

\* serverConnectTokenCreate(opts): a connect token for the frontend SDK.
serverConnectTokenCreate(opts, vendor) ==
    IF client = NullClient
    THEN Thrown(MsgNotConfiguredToken, <<>>)
    ELSE LET text == IF PIPEDREAM_ALLOWED_ORIGINS.type = "string"
                        /\ PIPEDREAM_ALLOWED_ORIGINS.text # <<>>
                     THEN PIPEDREAM_ALLOWED_ORIGINS.text
                     ELSE <<"[", "]">>
             parsed == JSON_parseArray(text)
         IN IF ~parsed.ok
            THEN Thrown("SyntaxError", <<>>)
            ELSE LET call == [method |-> "tokens.create",
                              externalUserId |-> opts.externalUserId,
                              allowedOrigins |-> parsed.value]
                 IN IF vendor.kind = "resolve"
                    THEN Returned([token |-> vendor.token,
                                   expiresAt |-> vendor.expiresAt,
                                   connectLinkUrl |-> vendor.connectLinkUrl],
                                  <<call>>)
                    ELSE Thrown(vendor.message, <<call>>)

isPipedreamEnabled == isPipedreamConfigured

\* app/api/pipedream/status GET: Response.json({ enabled }); the body is the
\* JSON text of the object (an undefined member is omitted).
GET == JSON_stringify(<<<<"enabled", isPipedreamEnabled>>>>)

\* Mutant of checkStatus: the presence of the enabled member decides.
checkStatusByPresence(body) ==
    LET data == JSON_parse(body)
    IN IF data.ok /\ HasKey(data.value, "enabled") THEN "enabled" ELSE "disabled"

\* checkStatus of the settings panel: data.enabled ? "enabled" : "disabled",
\* "disabled" when the body does not parse.
checkStatus(body) ==
    LET data == JSON_parse(body)
    IN IF data.ok /\ Truthy(Get(data.value, "enabled")) THEN "enabled" ELSE "disabled"

----------------------------------------------------------------------------
(* plugins/pipedream/steps/pipedream-action/step.ts *)

Success(d) == [success |-> TRUE, data |-> d]
Failure(e) == [success |-> FALSE, error |-> e]

\* The outcome of one step invocation: what it returned or threw, the
\* runPipedreamAction calls it made and the vendor calls those made.
StepReturn(r, runCalls, calls) ==
    [kind |-> "return", result |-> r, runCalls |-> runCalls, sdkCalls |-> calls]
StepThrow(m, runCalls, calls) ==
    [kind |-> "throw", message |-> m, runCalls |-> runCalls, sdkCalls |-> calls]

MsgNoComponentKey == "No Pipedream component key specified"
MsgActionFailed == "Pipedream action failed: "

\* lib/utils getErrorMessage: the error reduced to its message text.
getErrorMessage(error) == error.message

\* Mutant of stepForward: a failed vendor call is attempted a second time.
stepForwardRetry(userId, input, vendor) ==
    LET pipedreamConfiguredProps == input.pipedreamConfiguredProps
        parsed ==
            IF pipedreamConfiguredProps.type = "string"
            THEN JSON_parse(pipedreamConfiguredProps.text)
            ELSE IF pipedreamConfiguredProps.type = "object"
            THEN ParseOk(pipedreamConfiguredProps.entries)
            ELSE ParseOk(EmptyObject)
    IN IF ~parsed.ok
       THEN StepThrow("SyntaxError", <<>>, <<>>)
       ELSE LET opts == [externalUserId |-> userId,
                         componentKey |-> input.pipedreamComponentKey,
                         configuredProps |-> parsed.value]
                r == runPipedreamAction(opts, vendor)
            IN IF r.kind = "return"
               THEN StepReturn(Success(r.value), <<opts>>, r.sdkCalls)
               ELSE StepReturn(Failure(MsgActionFailed \o getErrorMessage(r)),
                               <<opts, opts>>, r.sdkCalls \o r.sdkCalls)

\* The step from the parsing of the props on: JSON.parse of string props
\* (outside the try block), then the guarded vendor call.
stepForward(userId, input, vendor) ==
    LET pipedreamComponentKey == input.pipedreamComponentKey
        pipedreamConfiguredProps == input.pipedreamConfiguredProps
        parsed ==
            IF pipedreamConfiguredProps.type = "string"
            THEN JSON_parse(pipedreamConfiguredProps.text)
            ELSE IF pipedreamConfiguredProps.type = "object"
            THEN ParseOk(pipedreamConfiguredProps.entries)
            ELSE ParseOk(EmptyObject)
    IN IF ~parsed.ok
       THEN StepThrow("SyntaxError", <<>>, <<>>)
       ELSE LET opts == [externalUserId |-> userId,
                         componentKey |-> pipedreamComponentKey,
                         configuredProps |-> parsed.value]
                r == runPipedreamAction(opts, vendor)
            IN IF r.kind = "return"
               THEN StepReturn(Success(r.value), <<opts>>, r.sdkCalls)
               ELSE StepReturn(Failure(MsgActionFailed \o getErrorMessage(r)),
                               <<opts>>, r.sdkCalls)

\* Mutant of stepBody: the presence check on the component key is missing.
stepBodyNoKeyCheck(userId, input, vendor) ==
    stepForward(userId, input, vendor)

\* The body shared by both revisions of the step, from the resolved
\* externalUserId on: the presence check on the component key first.
stepBody(userId, input, vendor) ==
    IF ~Truthy(input.pipedreamComponentKey)
    THEN StepReturn(Failure(MsgNoComponentKey), <<>>, <<>>)
    ELSE stepForward(userId, input, vendor)

\* lib/steps/step-handler withStepLogging: runs the step logic and hands its
\* outcome (a result or an exception) on unchanged.
withStepLogging(input, outcome) == outcome

\* Mutant of pipedreamActionStep: EXTERNAL_USER_ID is not consulted.
pipedreamActionStepNoEnv(input, vendor) ==
    withStepLogging(input,
        stepBody(Or(input.externalUserId, "anonymous"), input, vendor))

\* pipedreamActionStep (plugin revision): the acting user is the passed
\* externalUserId, else EXTERNAL_USER_ID, else "anonymous".
pipedreamActionStep(input, vendor) ==
    withStepLogging(input,
        stepBody(Or(input.externalUserId, Or(EXTERNAL_USER_ID, "anonymous")),
                 input, vendor))

\* pipedreamActionStep (lib/steps revision): the acting user is the
\* session's user id, else "anonymous".
pipedreamActionStepSession(input, sessionUser, vendor) ==
    stepBody(Or(sessionUser, "anonymous"), input, vendor)

----------------------------------------------------------------------------
(* lib/codegen-templates/pipedream-action: the step of exported projects *)

\* The template's own backend client: created at module load from the three
\* credentials whatever they hold, so a call always reaches the vendor.
\* client.runAction(opts): one vendor call.
templateRunAction(opts, vendor) ==
    LET call == [method |-> "runAction",
                 actionId |-> opts.actionId,
                 externalUserId |-> opts.externalUserId,
                 configuredProps |-> opts.configuredProps]
    IN IF vendor.kind = "resolve"
       THEN Returned(vendor.data, <<call>>)
       ELSE Thrown(vendor.message, <<call>>)

\* pipedreamActionStep of the template: the presence check on the key, then
\* the guarded vendor call with the props as they were passed in.
pipedreamActionStepTemplate(input, vendor) ==
    LET pipedreamComponentKey == input.pipedreamComponentKey
        pipedreamConfiguredProps == input.pipedreamConfiguredProps
        externalUserId_ == Or(input.externalUserId, Or(EXTERNAL_USER_ID, "anonymous"))
    IN IF ~Truthy(pipedreamComponentKey)
       THEN StepReturn(Failure(MsgNoComponentKey), <<>>, <<>>)
       ELSE LET r == templateRunAction([externalUserId |-> externalUserId_,
                                        actionId |-> pipedreamComponentKey,
                                        configuredProps |-> pipedreamConfiguredProps],
                                       vendor)
            IN IF r.kind = "return"
               THEN StepReturn(Success(r.value), <<>>, r.sdkCalls)
               ELSE StepReturn(Failure(MsgActionFailed \o r.message), <<>>, r.sdkCalls)

----------------------------------------------------------------------------
(* Inputs of the server operations *)

StepUserIds == {"user-1"}
StepKeys == {Undefined, "", "slack-send-message"}
StepObjects == {EmptyObject, <<<<"channel", "C1">>, <<"text", "hi">>>>}
\* Props as a string: the JSON of a mapping, the empty string, malformed text.
StepTexts == {JSON_stringify(o) : o \in StepObjects} \cup {<<>>, <<"{", "channel">>}
StepProps == {[type |-> "undefined"]}
             \cup {[type |-> "object", entries |-> o] : o \in StepObjects}
             \cup {[type |-> "string", text |-> t] : t \in StepTexts}
StepInputs == [pipedreamComponentKey : StepKeys,
               pipedreamConfiguredProps : StepProps,
               externalUserId : {Undefined, ""} \cup StepUserIds]

----------------------------------------------------------------------------
(* Server operations *)

\* The form is not on screen.
FormOff ==
    /\ config = [pipedreamApp |-> "", pipedreamAppName |-> "", pipedreamAppLogo |-> "",
                 pipedreamComponentKey |-> "", pipedreamConfiguredProps |-> <<>>,
                 pipedreamExternalUserId |-> ""]
    /\ mounted = FALSE
    /\ raised = FALSE
    /\ sessionUserId = Undefined
    /\ externalUserId = "anonymous"
    /\ providerUserId = "anonymous"
    /\ settingsMounted = FALSE
    /\ status = "loading"
    /\ statusFetch = FALSE
    /\ selectedApp = Undefined
    /\ selectedComponent = Undefined
    /\ configuredProps = <<>>
    /\ lastSavedPropsJson = <<>>
    /\ lastSavedComponentKey = ""
    /\ initialPropsCountRef = 0
    /\ hasReceivedUserInputRef = FALSE
    /\ timeoutRef = 0
    /\ pendingPropsRef = [null |-> TRUE]
    /\ timers = [i \in {} |-> 0]
    /\ isTesting = FALSE
    /\ testCall = [null |-> TRUE]
    /\ toasts = <<>>
    /\ lastEvent = [ev |-> "none"]
    /\ persisted = <<>>
    /\ userProps = <<>>
    /\ edited = FALSE
    /\ awaitingEmission = FALSE
    /\ accepted = [null |-> TRUE]

InitServer ==
    /\ FormOff
    /\ PIPEDREAM_CLIENT_ID \in ClientIds
    /\ PIPEDREAM_CLIENT_SECRET \in ClientSecrets
    /\ PIPEDREAM_PROJECT_ID \in ProjectIds
    /\ PIPEDREAM_PROJECT_ENVIRONMENT \in ProjectEnvironments
    /\ PIPEDREAM_ALLOWED_ORIGINS \in AllowedOriginsValues
    /\ EXTERNAL_USER_ID \in EnvUserIds
    /\ VERCEL_URL \in VercelUrls
    /\ lastOp = [op |-> "none"]

\* No server operation is in progress: the previous one has been answered.
Idle == lastOp.op = "none"

\* The outcome of the last operation is handed to its caller.
Respond ==
    /\ ~Idle
    /\ lastOp' = [op |-> "none"]
    /\ UNCHANGED <<envVars, formVars, providerVars, settingsVars, observerVars>>

\* A request to the status route.
StatusRequest ==
    /\ Idle
    /\ lastOp' = [op |-> "GET", body |-> GET, sdkCalls |-> <<>>]
    /\ UNCHANGED <<envVars, formVars, providerVars, settingsVars, observerVars>>

\* The frontend client's tokenCallback asks for a connect token.
TokenCreate ==
    \E uid \in StepUserIds, vendor \in TokenOutcomes :
        /\ Idle
        /\ lastOp' = [op |-> "serverConnectTokenCreate",
                      opts |-> [externalUserId |-> uid], vendor |-> vendor,
                      outcome |-> serverConnectTokenCreate([externalUserId |-> uid], vendor)]
        /\ UNCHANGED <<envVars, formVars, providerVars, settingsVars, observerVars>>

\* A direct call of the server action (the form's Test button).
RunAction ==
    \E uid \in StepUserIds \cup {"anonymous"}, o \in StepObjects, vendor \in VendorOutcomes :
        LET opts == [externalUserId |-> uid, componentKey |-> "slack-send-message",
                     configuredProps |-> o]
        IN /\ Idle
           /\ lastOp' = [op |-> "runPipedreamAction", opts |-> opts,
                         outcome |-> runPipedreamAction(opts, vendor)]
           /\ UNCHANGED <<envVars, formVars, providerVars, settingsVars, observerVars>>

\* The workflow runtime executes the step (plugin revision).
ActionStep ==
    \E input \in StepInputs, vendor \in VendorOutcomes :
        /\ Idle
        /\ lastOp' = [op |-> "pipedreamActionStep", input |-> input, vendor |-> vendor,
                      outcome |-> pipedreamActionStep(input, vendor)]
        /\ UNCHANGED <<envVars, formVars, providerVars, settingsVars, observerVars>>

\* The workflow runtime executes the step (lib/steps revision).
ActionStepSession ==
    \E input \in StepInputs, sessionUser \in {Undefined} \cup StepUserIds,
       vendor \in VendorOutcomes :
        /\ Idle
        /\ input.externalUserId = Undefined
        /\ lastOp' = [op |-> "pipedreamActionStep", input |-> input, vendor |-> vendor,
                      outcome |-> pipedreamActionStepSession(input, sessionUser, vendor)]
        /\ UNCHANGED <<envVars, formVars, providerVars, settingsVars, observerVars>>

NextServer ==
    \/ StatusRequest \/ TokenCreate \/ RunAction
    \/ ActionStep \/ ActionStepSession \/ Respond

SpecServer == InitServer /\ [][NextServer]_vars

----------------------------------------------------------------------------
(* Properties of the server operations *)

IsStep == lastOp.op = "pipedreamActionStep"

\* Some required credential is unset or empty.
CredentialAbsent ==
    \/ ~Truthy(PIPEDREAM_CLIENT_ID)
    \/ ~Truthy(PIPEDREAM_CLIENT_SECRET)
    \/ ~Truthy(PIPEDREAM_PROJECT_ID)

\* C1: a step invoked with an empty or missing component key returns the
\* fixed failure {success: false, error: "No Pipedream component key
\* specified"} and calls runPipedreamAction (hence the vendor) not at all,
\* whatever the props and the user ID are.
C1_NoKeyFailsWithoutCall ==
    (IsStep /\ ~Truthy(lastOp.input.pipedreamComponentKey)) =>
        /\ lastOp.outcome.kind = "return"
        /\ lastOp.outcome.result = Failure(MsgNoComponentKey)
        /\ lastOp.outcome.runCalls = <<>>
        /\ lastOp.outcome.sdkCalls = <<>>

\* A step was invoked with an empty key, non-empty props and a user ID, on
\* a configured server.
C1_Witness ==
    /\ IsStep
    /\ lastOp.input.pipedreamComponentKey = ""
    /\ lastOp.input.pipedreamConfiguredProps.type = "object"
    /\ lastOp.input.pipedreamConfiguredProps.entries # EmptyObject
    /\ lastOp.input.externalUserId = "user-1"
    /\ client # NullClient
    /\ lastOp.outcome.kind = "return"

\* C2: the step never raises past its boundary: every invocation returns
\* {success: true, data} or {success: false, error}.
C2_StepNeverRaises ==
    IsStep =>
        /\ lastOp.outcome.kind = "return"
        /\ LET r == lastOp.outcome.result
           IN \/ r.success /\ DOMAIN r = {"success", "data"}
              \/ ~r.success /\ DOMAIN r = {"success", "error"}

\* C3: with a required credential absent the status check reports disabled,
\* and token creation and action execution throw the 'Pipedream is not
\* configured' error without any call to the vendor SDK.
C3_NotConfigured ==
    CredentialAbsent =>
        /\ lastOp.op = "GET" => checkStatus(lastOp.body) = "disabled"
        /\ lastOp.op = "serverConnectTokenCreate" =>
               /\ lastOp.outcome.kind = "throw"
               /\ lastOp.outcome.message = MsgNotConfiguredToken
               /\ lastOp.outcome.sdkCalls = <<>>
        /\ lastOp.op = "runPipedreamAction" =>
               /\ lastOp.outcome.kind = "throw"
               /\ lastOp.outcome.message = MsgNotConfiguredRun
               /\ lastOp.outcome.sdkCalls = <<>>

\* Token creation was attempted with only the client secret unset.
C3_Witness ==
    /\ Truthy(PIPEDREAM_CLIENT_ID)
    /\ PIPEDREAM_CLIENT_SECRET = Undefined
    /\ Truthy(PIPEDREAM_PROJECT_ID)
    /\ lastOp.op = "serverConnectTokenCreate"
    /\ lastOp.outcome.kind = "throw"

\* C11: when the vendor call made by the step fails (the integration not
\* being configured included), the step has called runPipedreamAction once,
\* at most one vendor call was made, and it returns {success: false, error:
\* "Pipedream action failed: " followed by the error's message}.
C11_FailureReportedOnce ==
    (/\ IsStep
     /\ lastOp.outcome.runCalls # <<>>
     /\ (client = NullClient \/ lastOp.vendor.kind = "reject")) =>
        /\ lastOp.outcome.kind = "return"
        /\ Len(lastOp.outcome.runCalls) = 1
        /\ Len(lastOp.outcome.sdkCalls) <= 1
        /\ lastOp.outcome.result =
               [success |-> FALSE,
                error |-> "Pipedream action failed: " \o
                          (IF client = NullClient THEN "Pipedream is not configured."
                           ELSE lastOp.vendor.message)]

\* The vendor rejected the one call a step made on a configured server.
C11_Witness ==
    /\ IsStep
    /\ client # NullClient
    /\ lastOp.vendor.kind = "reject"
    /\ Len(lastOp.outcome.sdkCalls) = 1
    /\ lastOp.outcome.kind = "return"
    /\ ~lastOp.outcome.result.success

IsTokenCreate == lastOp.op = "serverConnectTokenCreate"

\* PIPEDREAM_ALLOWED_ORIGINS is unset, empty, or holds the JSON text of a list.
OriginsParse ==
    \/ PIPEDREAM_ALLOWED_ORIGINS.type = "undefined"
    \/ PIPEDREAM_ALLOWED_ORIGINS.text = <<>>
    \/ JSON_parseArray(PIPEDREAM_ALLOWED_ORIGINS.text).ok

\* The list PIPEDREAM_ALLOWED_ORIGINS stands for.
OriginsList ==
    IF PIPEDREAM_ALLOWED_ORIGINS.type = "undefined" \/ PIPEDREAM_ALLOWED_ORIGINS.text = <<>>
    THEN <<>>
    ELSE JSON_parseArray(PIPEDREAM_ALLOWED_ORIGINS.text).value

VercelOrigin == "https://" \o VERCEL_URL

\* C18: with VERCEL_URL set, every tokens.create call of a connect-token
\* creation names the VERCEL_URL origin among its allowedOrigins, whatever
\* PIPEDREAM_ALLOWED_ORIGINS holds.
C18_VercelOriginAllowed ==
    (IsTokenCreate /\ Truthy(VERCEL_URL)) =>
        \A i \in 1..Len(lastOp.outcome.sdkCalls) :
            \E j \in 1..Len(lastOp.outcome.sdkCalls[i].allowedOrigins) :
                lastOp.outcome.sdkCalls[i].allowedOrigins[j] = VercelOrigin

AsObject(p) == [type |-> "object", entries |-> p]
AsString(p) == [type |-> "string", text |-> JSON_stringify(p)]

\* C15: for every mapping p and non-empty key k, the step invoked with p and
\* the step invoked with JSON.stringify(p) make the same single
\* runPipedreamAction call: componentKey k, configuredProps p, and the resolved
\* user ID, nothing else; missing props are forwarded as the empty mapping;
\* the vendor call, when made, carries the same key and props.
C15_PropsForwardedUnchanged ==
    (IsStep /\ Truthy(lastOp.input.pipedreamComponentKey)) =>
        LET input == lastOp.input
            props == input.pipedreamConfiguredProps
            out == lastOp.outcome
            Forwards(p) ==
                /\ out.kind = "return"
                /\ Len(out.runCalls) = 1
                /\ DOMAIN out.runCalls[1] = {"externalUserId", "componentKey", "configuredProps"}
                /\ out.runCalls[1].componentKey = input.pipedreamComponentKey
                /\ out.runCalls[1].configuredProps = p
                /\ out.runCalls[1].externalUserId \in
                       {input.externalUserId, EXTERNAL_USER_ID, "anonymous"} \cup StepUserIds
                /\ \A i \in 1..Len(out.sdkCalls) :
                       /\ out.sdkCalls[i].id = input.pipedreamComponentKey
                       /\ out.sdkCalls[i].configuredProps = p
                       /\ out.sdkCalls[i].externalUserId = out.runCalls[1].externalUserId
                /\ \A other \in {AsObject(p), AsString(p)} :
                       stepBody(out.runCalls[1].externalUserId,
                                [input EXCEPT !.pipedreamConfiguredProps = other],
                                lastOp.vendor).runCalls = out.runCalls
        IN /\ \A p \in StepObjects : props \in {AsObject(p), AsString(p)} => Forwards(p)
           /\ props.type = "undefined" => Forwards(EmptyObject)

\* A step was invoked with the JSON text of {channel: "C1", text: "hi"} and
\* forwarded that mapping to the vendor.
C15_Witness ==
    /\ IsStep
    /\ lastOp.input.pipedreamComponentKey = "slack-send-message"
    /\ lastOp.input.pipedreamConfiguredProps =
           AsString(<<<<"channel", "C1">>, <<"text", "hi">>>>)
    /\ Len(lastOp.outcome.sdkCalls) = 1
    /\ lastOp.outcome.sdkCalls[1].configuredProps = <<<<"channel", "C1">>, <<"text", "hi">>>>

\* The arguments of the vendor calls of the in-app step, and of the
\* template's step: action, user and props (the in-app step always passes a
\* mapping).
InAppCallArgs(calls) ==
    [i \in 1..Len(calls) |->
        [action |-> calls[i].id, externalUserId |-> calls[i].externalUserId,
         configuredProps |-> [type |-> "object", entries |-> calls[i].configuredProps]]]
TemplateCallArgs(calls) ==
    [i \in 1..Len(calls) |->
        [action |-> calls[i].actionId, externalUserId |-> calls[i].externalUserId,
         configuredProps |-> calls[i].configuredProps]]

\* C20: for every input of a step execution and the same vendor outcome, the
\* template's pipedreamActionStep and the in-app one make vendor calls with
\* the same arguments and return the same result.
C20_TemplateAligned ==
    IsStep =>
        LET inApp == pipedreamActionStep(lastOp.input, lastOp.vendor)
            template == pipedreamActionStepTemplate(lastOp.input, lastOp.vendor)
        IN /\ inApp.kind = template.kind
           /\ inApp.result = template.result
           /\ InAppCallArgs(inApp.sdkCalls) = TemplateCallArgs(template.sdkCalls)

C10_EnabledIsBoolean ==
    lastOp.op = "GET" =>
        LET data == JSON_parse(lastOp.body)
        IN /\ data.ok
           /\ Get(data.value, "enabled") =
                  (IF CredentialAbsent THEN "false" ELSE "true")

----------------------------------------------------------------------------
(* components/workflow/config/pipedream-action-config (the form) *)

\* The debounce window of the persist, in ms.
DebounceDelay == 300

\* The granularity of the passage of time, in ms.
TickMs == 100

\* Timer ids the event loop hands out.
MaxTimers == 3

\* Updates of one burst are counted up to this many.
MaxBurst == 2

Apps == {"slack", "github"}
ComponentsOf(app) == IF app = "slack"
                     THEN {"slack-send-message", "slack-add-reaction"}
                     ELSE IF app = "github" THEN {"github-create-issue"}
                     ELSE {}
\* The users who sign in on this browser, and the owners of saved configs.
FormUserIds == {"user-1"}
OwnerIds == {"user-1", "user-2"}

\* Names of the configurable props of the actions.
PropNames == <<"channel", "text">>

\* What the vendor form may emit as the configured props.
EmittedProps == {EmptyObject,
                 <<<<"channel", "C1">>>>,
                 <<<<"channel", "C1">>, <<"text", "hi">>>>,
                 <<<<"channel", "C1">>, <<"text", Undefined>>>>}

NullRef == [null |-> TRUE]
Ref(p) == [null |-> FALSE, current |-> p]

EmptyString == <<>>
NoTimers == [i \in {} |-> 0]

\* The component's state, refs and props as one record.
FormState ==
    [config |-> config, raised |-> raised, selectedApp |-> selectedApp,
     selectedComponent |-> selectedComponent, configuredProps |-> configuredProps,
     lastSavedPropsJson |-> lastSavedPropsJson,
     lastSavedComponentKey |-> lastSavedComponentKey,
     initialPropsCountRef |-> initialPropsCountRef,
     hasReceivedUserInputRef |-> hasReceivedUserInputRef,
     timeoutRef |-> timeoutRef, pendingPropsRef |-> pendingPropsRef,
     timers |-> timers, persisted |-> <<>>]

\* The parent's onUpdateConfig(key, value): sets one key of the node config.
onUpdateConfig(s, key, value) == [s EXCEPT !.config[key] = value]

RECURSIVE AddNames(_, _)
AddNames(keys, names) ==
    IF names = <<>> THEN keys
    ELSE AddNames(IF \E i \in 1..Len(keys) : keys[i] = Head(names)
                  THEN keys ELSE Append(keys, Head(names)),
                  Tail(names))

\* collectPropKeys: every key of props, then the additional names.
collectPropKeys(props, additionalNames) ==
    AddNames(ObjectKeys(props), additionalNames)

RECURSIVE CopyDefined(_, _, _)
CopyDefined(props, keys, acc) ==
    IF keys = <<>> THEN acc
    ELSE CopyDefined(props, Tail(keys),
                     IF Get(props, Head(keys)) # Undefined
                     THEN Put(acc, Head(keys), Get(props, Head(keys)))
                     ELSE acc)

\* serializeProps: the defined values by key, then a JSON round trip.
serializeProps(props, propNames) ==
    LET serializable == CopyDefined(props, collectPropKeys(props, propNames), EmptyObject)
        plain == JSON_parse(JSON_stringify(serializable))
    IN IF plain.ok THEN plain.value ELSE serializable

serializedPropNames == PropNames

\* persistConfiguredProps(props), as created by a render in which the
\* selected action's key was `key` and the external user ID `uid`.
persistConfiguredProps(s, key, uid, props) ==
    IF ~Truthy(key) THEN s
    ELSE IF /\ s.lastSavedPropsJson # EmptyString
            /\ s.lastSavedPropsJson # JSON_stringify(EmptyObject)
            /\ Len(ObjectKeys(props)) = 0
    THEN s
    ELSE LET plainProps == serializeProps(props, serializedPropNames)
             json == JSON_stringify(plainProps)
             shouldUpdateProps == json # s.lastSavedPropsJson
             shouldUpdateKey == key # s.lastSavedComponentKey
             s1 == IF shouldUpdateProps
                   THEN LET a == onUpdateConfig([s EXCEPT !.lastSavedPropsJson = json],
                                                "pipedreamConfiguredProps", json)
                        IN IF Truthy(uid) /\ uid # "anonymous"
                           THEN onUpdateConfig(a, "pipedreamExternalUserId", uid)
                           ELSE a
                   ELSE s
         IN IF shouldUpdateKey
            THEN onUpdateConfig([s1 EXCEPT !.lastSavedComponentKey = key],
                                "pipedreamComponentKey", key)
            ELSE s1

\* A timer id not in use.
NewTimerId(t) == CHOOSE i \in 1..MaxTimers :
                    /\ i \notin DOMAIN t
                    /\ \A j \in 1..(i - 1) : j \in DOMAIN t

clearTimeout(t, id) == [i \in DOMAIN t \ {id} |-> t[i]]
setTimeout(t, id) == [i \in DOMAIN t \cup {id} |-> IF i = id THEN 0 ELSE t[i]]

\* Mutant of debouncedPersist: the pending timer is not cancelled.
debouncedPersistNoCancel(s, props) ==
    LET id == NewTimerId(s.timers)
    IN [s EXCEPT !.pendingPropsRef = Ref(props),
                 !.timeoutRef = id,
                 !.timers = setTimeout(s.timers, id)]

\* debouncedPersist(props): remember the props, cancel the pending timer,
\* arm a new one.
debouncedPersist(s, props) ==
    LET cleared == IF s.timeoutRef # 0 THEN clearTimeout(s.timers, s.timeoutRef)
                   ELSE s.timers
        id == NewTimerId(cleared)
    IN [s EXCEPT !.pendingPropsRef = Ref(props),
                 !.timeoutRef = id,
                 !.timers = setTimeout(cleared, id)]

\* Mutant of ignoredAsInitialEmission: only an empty emission is ignored.
ignoredOnlyWhenEmpty(s, props) ==
    /\ ~s.hasReceivedUserInputRef
    /\ s.initialPropsCountRef > 0
    /\ Len(ObjectKeys(props)) = 0

\* The guard of handleConfiguredPropsUpdate: the emission is taken for the
\* vendor form's initial empty or reduced one.
ignoredAsInitialEmission(s, props) ==
    /\ ~s.hasReceivedUserInputRef
    /\ s.initialPropsCountRef > 0
    /\ Len(ObjectKeys(props)) < s.initialPropsCountRef

\* handleConfiguredPropsUpdate(props): the vendor form's onUpdateConfiguredProps.
handleConfiguredPropsUpdate(s, props) ==
    LET incomingCount == Len(ObjectKeys(props))
    IN IF ignoredAsInitialEmission(s, props)
       THEN s
       ELSE debouncedPersist(
                [s EXCEPT !.hasReceivedUserInputRef =
                              IF incomingCount >= s.initialPropsCountRef THEN TRUE ELSE @,
                          !.configuredProps = props],
                props)

\* The vendor's app catalog: display name and logo by nameSlug.
AppName(app) == IF app = "slack" THEN "Slack" ELSE IF app = "github" THEN "GitHub" ELSE ""
AppImg(app) == IF app = Undefined THEN "" ELSE "https://assets.pipedream.net/" \o app

\* Mutant of handleAppChange: the selected action is kept.
handleAppChangeKeepsAction(s, app) ==
    LET a == [s EXCEPT !.selectedApp = app,
                       !.configuredProps = EmptyObject]
        b == onUpdateConfig(a, "pipedreamApp", Or(app, ""))
        c == onUpdateConfig(b, "pipedreamAppName", Or(AppName(app), Or(app, "")))
        d == onUpdateConfig(c, "pipedreamAppLogo", Or(AppImg(app), ""))
    IN onUpdateConfig(d, "pipedreamConfiguredProps", JSON_stringify(EmptyObject))

\* handleAppChange(app): app is a nameSlug, or Undefined when cleared.
handleAppChange(s, app) ==
    LET a == [s EXCEPT !.selectedApp = app,
                       !.selectedComponent = Undefined,
                       !.configuredProps = EmptyObject]
        b == onUpdateConfig(a, "pipedreamApp", Or(app, ""))
        c == onUpdateConfig(b, "pipedreamAppName", Or(AppName(app), Or(app, "")))
        d == onUpdateConfig(c, "pipedreamAppLogo", Or(AppImg(app), ""))
        e == onUpdateConfig(d, "pipedreamComponentKey", "")
    IN onUpdateConfig(e, "pipedreamConfiguredProps", JSON_stringify(EmptyObject))

\* Mutant of handleComponentChange: the empty props reach the config only
\* through persistConfiguredProps.
handleComponentChangeViaPersist(s, key, uid, component) ==
    LET a == [s EXCEPT !.selectedComponent = component,
                       !.configuredProps = EmptyObject]
        b == persistConfiguredProps(a, key, uid, EmptyObject)
    IN onUpdateConfig(b, "pipedreamComponentKey", Or(component, ""))

\* handleComponentChange(component), as created by a render in which the
\* selected action's key was `key` and the external user ID `uid`;
\* component is an action key, or Undefined when cleared.
handleComponentChange(s, key, uid, component) ==
    LET a == [s EXCEPT !.selectedComponent = component,
                       !.configuredProps = EmptyObject]
        b == persistConfiguredProps(a, key, uid, EmptyObject)
        c == onUpdateConfig(b, "pipedreamComponentKey", Or(component, ""))
    IN onUpdateConfig(c, "pipedreamConfiguredProps", JSON_stringify(EmptyObject))

\* The effect that syncs the form from config (node switches and refresh).
syncEffect(s) ==
    LET nameSlug == s.config.pipedreamApp
        key == s.config.pipedreamComponentKey
        storedProps == s.config.pipedreamConfiguredProps
        a == IF Truthy(nameSlug) /\ (s.selectedApp = Undefined \/ s.selectedApp # nameSlug)
             THEN [s EXCEPT !.selectedApp = nameSlug] ELSE s
        b == IF Truthy(key) /\ (a.selectedComponent = Undefined \/ a.selectedComponent # key)
             THEN [a EXCEPT !.selectedComponent = key] ELSE a
    IN IF storedProps = EmptyString THEN b
       ELSE LET props == JSON_parse(storedProps)
            IN IF ~props.ok THEN [b EXCEPT !.raised = TRUE]
               ELSE IF Len(ObjectKeys(props.value)) > 0
               THEN [b EXCEPT !.configuredProps = props.value]
               ELSE b

\* The dependencies of the sync effect differ between two renders.  (The
\* app and action objects are new on every selection, so the effect always
\* follows handleAppChange and handleComponentChange.)
SyncDepsChanged(pre, post) ==
    \/ pre.config.pipedreamApp # post.config.pipedreamApp
    \/ pre.config.pipedreamAppLogo # post.config.pipedreamAppLogo
    \/ pre.config.pipedreamAppName # post.config.pipedreamAppName
    \/ pre.config.pipedreamComponentKey # post.config.pipedreamComponentKey
    \/ pre.config.pipedreamConfiguredProps # post.config.pipedreamConfiguredProps
    \/ pre.selectedApp # post.selectedApp
    \/ pre.selectedComponent # post.selectedComponent

\* The render that follows an event, and its effects.
Rendered(pre, post) == IF SyncDepsChanged(pre, post) THEN syncEffect(post) ELSE post

\* The useState initializer of configuredProps.
initialConfiguredProps(cfg) ==
    LET stored == cfg.pipedreamConfiguredProps
    IN IF stored # EmptyString
       THEN LET parsed == JSON_parse(stored)
            IN IF parsed.ok THEN parsed.value ELSE EmptyObject
       ELSE EmptyObject

\* The first render of the form for a node config, and its effects.
Mounted(cfg) ==
    syncEffect(
        [config |-> cfg, raised |-> FALSE,
         selectedApp |-> IF Truthy(cfg.pipedreamApp) THEN cfg.pipedreamApp ELSE Undefined,
         selectedComponent |-> IF Truthy(cfg.pipedreamComponentKey)
                               THEN cfg.pipedreamComponentKey ELSE Undefined,
         configuredProps |-> initialConfiguredProps(cfg),
         lastSavedPropsJson |-> EmptyString,
         lastSavedComponentKey |-> "",
         initialPropsCountRef |-> Len(ObjectKeys(initialConfiguredProps(cfg))),
         hasReceivedUserInputRef |-> FALSE,
         timeoutRef |-> 0, pendingPropsRef |-> NullRef,
         timers |-> NoTimers, persisted |-> <<>>])

\* persistFnRef.current(props) as the debounce hook invokes it.
invokePersistFn(s, key, uid, props) ==
    persistConfiguredProps([s EXCEPT !.persisted = Append(@, props)], key, uid, props)

\* The callback of the debounce timer.
timerCallback(s, key, uid) ==
    IF s.pendingPropsRef.null THEN s
    ELSE [invokePersistFn(s, key, uid, s.pendingPropsRef.current)
             EXCEPT !.pendingPropsRef = NullRef]

\* Mutant of unmountCleanup: the pending timer is left armed.
unmountCleanupNoCancel(s, key, uid) ==
    IF s.pendingPropsRef.null THEN s
    ELSE invokePersistFn(s, key, uid, s.pendingPropsRef.current)

\* The debounce hook's cleanup on unmount: cancel the timer, flush.
unmountCleanup(s, key, uid) ==
    LET a == IF s.timeoutRef # 0
             THEN [s EXCEPT !.timers = clearTimeout(s.timers, s.timeoutRef)]
             ELSE s
    IN IF a.pendingPropsRef.null THEN a
       ELSE invokePersistFn(a, key, uid, a.pendingPropsRef.current)

\* toast.error / toast.success of the notification library.
ToastError(title, description) ==
    [kind |-> "error", title |-> title, description |-> description]
ToastSuccess(title, description) ==
    [kind |-> "success", title |-> title, description |-> description]

MsgSelectAction == "Please select an action first"

\* Mutant of handleTest: the check for a selected action is missing.
handleTestNoCheck(testing, key, uid, props) ==
    [isTesting |-> TRUE,
     call |-> Ref([externalUserId |-> uid, componentKey |-> key,
                   configuredProps |-> serializeProps(props, serializedPropNames)]),
     toasts |-> <<>>]

\* handleTest up to its await, as created by a render with the selected
\* action's key `key`, the external user ID `uid` and the props `props`:
\* the new isTesting, the runPipedreamAction call it awaits, its toasts.
handleTest(testing, key, uid, props) ==
    IF ~Truthy(key)
    THEN [isTesting |-> testing, call |-> NullRef,
          toasts |-> <<ToastError(MsgSelectAction, "")>>]
    ELSE [isTesting |-> TRUE,
          call |-> Ref([externalUserId |-> uid, componentKey |-> key,
                        configuredProps |-> serializeProps(props, serializedPropNames)]),
          toasts |-> <<>>]

\* Mutant of handleTestAwaited: isTesting is reset on success only.
handleTestAwaitedNoFinally(r) ==
    IF r.kind = "return"
    THEN [isTesting |-> FALSE,
          toasts |-> <<ToastSuccess("Test successful!", "Action executed successfully")>>]
    ELSE [isTesting |-> TRUE,
          toasts |-> <<ToastError("Test failed", r.message)>>]

\* handleTest from the settling of the awaited call on: r is what
\* runPipedreamAction returned or threw (an Error).
handleTestAwaited(r) ==
    IF r.kind = "return"
    THEN [isTesting |-> FALSE,
          toasts |-> <<ToastSuccess("Test successful!", "Action executed successfully")>>]
    ELSE [isTesting |-> FALSE,
          toasts |-> <<ToastError("Test failed", r.message)>>]

\* usePipedreamUserId: the session's user id, else "anonymous".
usePipedreamUserId(session) == Or(session, "anonymous")

----------------------------------------------------------------------------
(* The form's events *)

ConfigOf(app, key, text, uid) ==
    [pipedreamApp |-> app, pipedreamAppName |-> AppName(app),
     pipedreamAppLogo |-> IF app = "" THEN "" ELSE AppImg(app),
     pipedreamComponentKey |-> key, pipedreamConfiguredProps |-> text,
     pipedreamExternalUserId |-> uid]

\* Node configs the form is opened on: a new node, and nodes saved earlier
\* (by this user, by another user, with malformed props text).
InitConfigs ==
    {ConfigOf("", "", EmptyString, "")}
    \cup {ConfigOf("slack", "slack-send-message",
                    JSON_stringify(<<<<"channel", "C1">>, <<"text", "hi">>>>), u) :
             u \in {""} \cup OwnerIds}
    \cup {ConfigOf("slack", "slack-send-message", <<"{", "channel">>, "user-1")}

\* The next state of the form is s.
SetForm(s) ==
    /\ config' = s.config
    /\ raised' = s.raised
    /\ selectedApp' = s.selectedApp
    /\ selectedComponent' = s.selectedComponent
    /\ configuredProps' = s.configuredProps
    /\ lastSavedPropsJson' = s.lastSavedPropsJson
    /\ lastSavedComponentKey' = s.lastSavedComponentKey
    /\ initialPropsCountRef' = s.initialPropsCountRef
    /\ hasReceivedUserInputRef' = s.hasReceivedUserInputRef
    /\ timeoutRef' = s.timeoutRef
    /\ pendingPropsRef' = s.pendingPropsRef
    /\ timers' = s.timers
    /\ persisted' = s.persisted

ServerOff ==
    /\ PIPEDREAM_CLIENT_ID = Undefined
    /\ PIPEDREAM_CLIENT_SECRET = Undefined
    /\ PIPEDREAM_PROJECT_ID = Undefined
    /\ PIPEDREAM_PROJECT_ENVIRONMENT = Undefined
    /\ PIPEDREAM_ALLOWED_ORIGINS = [type |-> "undefined"]
    /\ EXTERNAL_USER_ID = Undefined
    /\ VERCEL_URL = Undefined
    /\ lastOp = [op |-> "none"]

\* The form is opened on a node config.
\* The form was just mounted on cfg, with the session resolved to `session`.
FormMounted(cfg, session) ==
        LET s == Mounted(cfg)
        IN /\ config = s.config
           /\ mounted = ~s.raised
           /\ raised = s.raised
           /\ sessionUserId = session
           /\ externalUserId = usePipedreamUserId(session)
           /\ providerUserId = usePipedreamUserId(session)
           /\ settingsMounted = FALSE
           /\ status = "loading"
           /\ statusFetch = FALSE
           /\ selectedApp = s.selectedApp
           /\ selectedComponent = s.selectedComponent
           /\ configuredProps = s.configuredProps
           /\ lastSavedPropsJson = s.lastSavedPropsJson
           /\ lastSavedComponentKey = s.lastSavedComponentKey
           /\ initialPropsCountRef = s.initialPropsCountRef
           /\ hasReceivedUserInputRef = s.hasReceivedUserInputRef
           /\ timeoutRef = s.timeoutRef
           /\ pendingPropsRef = s.pendingPropsRef
           /\ timers = s.timers
           /\ isTesting = FALSE
           /\ testCall = NullRef
           /\ toasts = <<>>
           /\ lastEvent = [ev |-> "mount"]
           /\ persisted = <<>>
           /\ userProps = s.configuredProps
           /\ edited = FALSE
           /\ awaitingEmission = FALSE
           /\ accepted = NullRef

InitForm ==
    \E cfg \in InitConfigs, session \in {Undefined} \cup FormUserIds :
        ServerOff /\ FormMounted(cfg, session)

\* The user picks an app in SelectApp, or clears it.
AppChange ==
    \E app \in Apps \cup {Undefined} :
        /\ mounted
        /\ SetForm(syncEffect(handleAppChange(FormState, app)))
        /\ lastEvent' = [ev |-> "handleAppChange", app |-> app]
        /\ userProps' = EmptyObject
        /\ edited' = TRUE
        /\ awaitingEmission' = TRUE
        /\ UNCHANGED accepted
        /\ UNCHANGED <<mounted, sessionUserId, externalUserId, serverVars, providerVars, settingsVars, testVars>>

\* The user picks an action of the selected app in SelectComponent, or clears it.
ComponentChange ==
    \E component \in ComponentsOf(selectedApp) \cup {Undefined} :
        /\ mounted
        /\ selectedApp # Undefined
        /\ SetForm(syncEffect(
                handleComponentChange(FormState, selectedComponent, externalUserId,
                                      component)))
        /\ lastEvent' = [ev |-> "handleComponentChange", component |-> component]
        /\ userProps' = EmptyObject
        /\ edited' = TRUE
        /\ awaitingEmission' = TRUE
        /\ UNCHANGED accepted
        /\ UNCHANGED <<mounted, sessionUserId, externalUserId, serverVars, providerVars, settingsVars, testVars>>

\* The update was let through by the guard of handleConfiguredPropsUpdate.
Accepted(s, props) == ~ignoredAsInitialEmission(s, props)

\* The vendor form (ComponentFormContainer) emits the configured props.
PropsUpdate ==
    \E props \in EmittedProps :
        /\ mounted
        /\ selectedComponent # Undefined
        /\ \E i \in 1..MaxTimers : i \notin DOMAIN timers
        /\ SetForm(Rendered(FormState, handleConfiguredPropsUpdate(FormState, props)))
        /\ lastEvent' = [ev |-> "handleConfiguredPropsUpdate", props |-> props]
        /\ userProps' = props
        /\ edited' = (edited \/ Accepted(FormState, props))
        /\ awaitingEmission' = FALSE
        /\ accepted' = IF Accepted(FormState, props)
                        THEN [null |-> FALSE, current |-> props,
                              updates |-> IF accepted.null THEN 1
                                          ELSE IF accepted.updates < MaxBurst
                                          THEN accepted.updates + 1 ELSE MaxBurst]
                        ELSE accepted
        /\ UNCHANGED <<mounted, sessionUserId, externalUserId, serverVars, providerVars, settingsVars, testVars>>

\* Time passes while a timer is running.
Tick ==
    /\ \E i \in DOMAIN timers : timers[i] < DebounceDelay
    /\ timers' = [i \in DOMAIN timers |->
                      IF timers[i] + TickMs >= DebounceDelay THEN DebounceDelay
                      ELSE timers[i] + TickMs]
    /\ lastEvent' = [ev |-> "tick"]
    /\ persisted' = <<>>
    /\ UNCHANGED <<config, mounted, raised, sessionUserId, externalUserId, selectedApp,
                   selectedComponent, configuredProps, lastSavedPropsJson,
                   lastSavedComponentKey, initialPropsCountRef,
                   hasReceivedUserInputRef, timeoutRef, pendingPropsRef,
                   userProps, edited, awaitingEmission, accepted, serverVars, providerVars, settingsVars, testVars>>

\* A timer is due once the delay has elapsed.
Due(elapsed) == elapsed >= DebounceDelay

\* A due debounce timer fires.
TimerFire ==
    \E id \in DOMAIN timers :
        /\ Due(timers[id])
        /\ LET s == [FormState EXCEPT !.timers = clearTimeout(@, id)]
           IN SetForm(Rendered(FormState,
                               timerCallback(s, selectedComponent, externalUserId)))
        /\ lastEvent' = [ev |-> "timer", elapsed |-> timers[id],
                         updates |-> IF accepted.null THEN 0 ELSE accepted.updates]
        /\ accepted' = NullRef
        /\ UNCHANGED <<mounted, sessionUserId, externalUserId, userProps, edited, awaitingEmission,
                       serverVars, providerVars, settingsVars, testVars>>

\* The session loads or changes; the hook's effect updates the user ID.
SessionChange ==
    \E session \in {Undefined} \cup FormUserIds :
        /\ mounted
        /\ session # sessionUserId
        /\ sessionUserId' = session
        /\ externalUserId' = usePipedreamUserId(session)
        /\ providerUserId' = usePipedreamUserId(session)
        /\ lastEvent' = [ev |-> "session"]
        /\ persisted' = <<>>
        /\ UNCHANGED <<config, mounted, raised, selectedApp,
                       selectedComponent, configuredProps, lastSavedPropsJson,
                       lastSavedComponentKey, initialPropsCountRef,
                       hasReceivedUserInputRef, timeoutRef, pendingPropsRef, timers,
                       userProps, edited, awaitingEmission, accepted, serverVars, testVars,
                       settingsVars>>

\* The form leaves the screen (the node is deselected).
Unmount ==
    /\ mounted
    /\ mounted' = FALSE
    /\ SetForm(unmountCleanup(FormState, selectedComponent, externalUserId))
    /\ lastEvent' = [ev |-> "unmount"]
    /\ accepted' = NullRef
    /\ isTesting' = FALSE
    /\ UNCHANGED <<sessionUserId, externalUserId, userProps, edited, awaitingEmission, serverVars, providerVars, settingsVars,
                   testCall, toasts>>

\* The form is shown again for the node, with the config as persisted.
Remount ==
    /\ ~mounted
    /\ ~raised
    /\ timers = NoTimers
    /\ SetForm(Mounted(config))
    /\ mounted' = ~Mounted(config).raised
    /\ lastEvent' = [ev |-> "mount"]
    /\ userProps' = Mounted(config).configuredProps
    /\ edited' = FALSE
    /\ awaitingEmission' = FALSE
    /\ accepted' = NullRef
    /\ UNCHANGED <<sessionUserId, externalUserId, serverVars, providerVars, settingsVars, testVars>>

NextForm ==
    \/ AppChange \/ ComponentChange \/ PropsUpdate
    \/ Tick \/ TimerFire \/ SessionChange \/ Unmount \/ Remount

SpecForm == InitForm /\ [][NextForm]_vars

----------------------------------------------------------------------------
(* Properties of the action-config form *)

EmptyPropsJson == <<"{", "}">>

\* Every value of the mapping is defined.
AllDefined(props) == \A i \in 1..Len(props) : props[i][2] # Undefined

\* C4: when the node config's pipedreamExternalUserId is set and differs
\* from the current external user ID (a signed-in user), the form shows no
\* stored props after mount: configuredProps is the empty mapping.
C4_ForeignPropsNotSurfaced ==
    (/\ mounted
     /\ lastEvent.ev = "mount"
     /\ Truthy(config.pipedreamExternalUserId)
     /\ externalUserId # "anonymous"
     /\ config.pipedreamExternalUserId # externalUserId) =>
        configuredProps = EmptyObject

\* C5: after the selected app is changed (to an app, or cleared) the config
\* has pipedreamApp equal to the new slug ("" when cleared), an empty
\* pipedreamComponentKey and pipedreamConfiguredProps "{}"; the form has no
\* selected action and empty configured props.
C5_AppChangeClears ==
    lastEvent.ev = "handleAppChange" =>
        /\ config.pipedreamApp = (IF lastEvent.app = Undefined THEN "" ELSE lastEvent.app)
        /\ config.pipedreamComponentKey = ""
        /\ config.pipedreamConfiguredProps = EmptyPropsJson
        /\ selectedComponent = Undefined
        /\ configuredProps = EmptyObject

\* The app was changed to github while props saved earlier for a slack
\* action were on record and a debounced write was pending.
C5_Witness ==
    /\ lastEvent.ev = "handleAppChange"
    /\ lastEvent.app = "github"
    /\ lastSavedComponentKey = "slack-send-message"
    /\ lastSavedPropsJson # EmptyString
    /\ ~pendingPropsRef.null
    /\ selectedApp = "github"

\* C6: a change of the selected action sets the config's
\* pipedreamConfiguredProps to "{}" and the form's configured props to the
\* empty mapping, sets pipedreamComponentKey to the new action's key ("" when
\* cleared), and leaves pipedreamApp and the form's selected app as they were.
C6_ComponentChangeClearsProps ==
    [][lastEvent'.ev = "handleComponentChange" =>
          /\ config'.pipedreamConfiguredProps = EmptyPropsJson
          /\ configuredProps' = EmptyObject
          /\ config'.pipedreamComponentKey =
                 (IF lastEvent'.component = Undefined THEN "" ELSE lastEvent'.component)
          /\ selectedComponent' = lastEvent'.component
          /\ config'.pipedreamApp = config.pipedreamApp
          /\ config'.pipedreamAppName = config.pipedreamAppName
          /\ selectedApp' = selectedApp]_vars

\* The action was changed from slack-send-message, whose props had been
\* persisted, to slack-add-reaction.
C6_Witness ==
    /\ lastEvent.ev = "handleComponentChange"
    /\ lastEvent.component = "slack-add-reaction"
    /\ lastSavedComponentKey = "slack-send-message"
    /\ lastSavedPropsJson \notin {EmptyString, EmptyPropsJson}
    /\ selectedApp = "slack"
    /\ config.pipedreamComponentKey = "slack-add-reaction"

\* No debounced write is pending.
NoWritePending == pendingPropsRef.null /\ timers = NoTimers

\* C7: on a node opened without saved props, once no debounced write is
\* pending, parsing the config's pipedreamConfiguredProps yields exactly the
\* mapping (of defined values, the empty one included) last set for the
\* selected action.
C7_PersistedRoundTrips ==
    (/\ mounted
     /\ initialPropsCountRef = 0
     /\ selectedComponent # Undefined
     /\ NoWritePending
     /\ AllDefined(userProps)) =>
        JSON_parse(config.pipedreamConfiguredProps) = ParseOk(userProps)

C9_Debounce ==
    /\ [](Cardinality(DOMAIN timers) <= 1)
    /\ [][lastEvent'.ev = "timer" =>
            /\ lastEvent'.elapsed >= 300
            /\ timers' = NoTimers
            /\ pendingPropsRef' = NullRef
            /\ Len(persisted') <= 1
            /\ \A i \in 1..Len(persisted') :
                   ~accepted.null /\ persisted'[i] = accepted.current]_vars

\* A timer fired after a burst of two or more updates and handed the props
\* of the last one, both fields set, to the persist function, which wrote them.
C9_Witness ==
    /\ lastEvent.ev = "timer"
    /\ lastEvent.updates >= 2
    /\ persisted = << <<<<"channel", "C1">>, <<"text", "hi">>>> >>
    /\ config.pipedreamConfiguredProps = JSON_stringify(persisted[1])
    /\ pendingPropsRef.null

----------------------------------------------------------------------------
(* The Test button *)

componentVars == <<config, mounted, raised, sessionUserId, externalUserId, selectedApp,
                   selectedComponent, configuredProps, lastSavedPropsJson,
                   lastSavedComponentKey, initialPropsCountRef,
                   hasReceivedUserInputRef, timeoutRef, pendingPropsRef, timers>>

\* The server has its three credentials.
ServerOn ==
    /\ PIPEDREAM_CLIENT_ID = "client-id"
    /\ PIPEDREAM_CLIENT_SECRET = "client-secret"
    /\ PIPEDREAM_PROJECT_ID = "proj_abc"
    /\ PIPEDREAM_PROJECT_ENVIRONMENT = Undefined
    /\ PIPEDREAM_ALLOWED_ORIGINS = [type |-> "undefined"]
    /\ EXTERNAL_USER_ID = Undefined
    /\ VERCEL_URL = Undefined
    /\ lastOp = [op |-> "none"]

InitTest ==
    \E cfg \in InitConfigs, session \in {Undefined} \cup FormUserIds :
        (ServerOn \/ ServerOff) /\ FormMounted(cfg, session)

\* handleTest is invoked.  The handler exists in every render and is taken as
\* invocable in every state of the mounted form; the JSX wires it to the Test
\* button, which is rendered while an action is selected and is disabled
\* while a test runs.  One test call is in flight at a time.
TestPress ==
    /\ mounted
    /\ ~isTesting
    /\ testCall.null
    /\ LET h == handleTest(isTesting, selectedComponent, externalUserId, configuredProps)
       IN /\ isTesting' = h.isTesting
          /\ testCall' = h.call
          /\ toasts' = h.toasts
    /\ lastEvent' = [ev |-> "handleTest"]
    /\ persisted' = <<>>
    /\ UNCHANGED <<componentVars, userProps, edited, awaitingEmission, accepted, serverVars, providerVars, settingsVars>>

\* The awaited server action settles: the vendor resolved or rejected, or the
\* server had no client.
TestSettle ==
    \E vendor \in VendorOutcomes :
        /\ ~testCall.null
        /\ LET r == runPipedreamAction(testCall.current, vendor)
               h == handleTestAwaited(r)
           IN /\ isTesting' = (mounted /\ h.isTesting)
              /\ toasts' = h.toasts
              /\ lastEvent' = [ev |-> "handleTestAwaited", call |-> testCall.current,
                               vendor |-> vendor, sdkCalls |-> r.sdkCalls]
        /\ testCall' = NullRef
        /\ persisted' = <<>>
        /\ UNCHANGED <<componentVars, userProps, edited, awaitingEmission, accepted, serverVars, providerVars, settingsVars>>

NextTest ==
    \/ ComponentChange \/ PropsUpdate \/ SessionChange \/ TestPress \/ TestSettle

SpecTest == InitTest /\ [][NextTest]_vars

\* C16: every write of pipedreamConfiguredProps by the form leaves the
\* config's pipedreamExternalUserId equal to the external user ID of the user
\* the form was acting for when it made the write.
C16_OwnerFollowsWrites ==
    [][(mounted /\ config'.pipedreamConfiguredProps # config.pipedreamConfiguredProps) =>
          config'.pipedreamExternalUserId = externalUserId]_vars

\* C21: an unmount with a debounced update pending cancels the timer and
\* invokes the persist function exactly once, with the latest pending props
\* (the props of the last accepted update); an unmount with nothing pending
\* invokes it not at all and leaves the config alone.  No timer is armed
\* while the form is unmounted, so no timer persists as well.
C21_UnmountFlushesOnce ==
    /\ [][lastEvent'.ev = "unmount" =>
             /\ timers' = NoTimers
             /\ IF pendingPropsRef.null
                THEN persisted' = <<>> /\ config' = config
                ELSE /\ persisted' = <<pendingPropsRef.current>>
                     /\ ~accepted.null
                     /\ accepted.current = pendingPropsRef.current]_vars
    /\ [][~mounted => lastEvent'.ev # "timer"]_vars

\* The form was unmounted with the update {channel: "C1", text: "hi"}
\* pending: it was handed to the persist function, which wrote it.
C21_Witness ==
    /\ lastEvent.ev = "unmount"
    /\ ~mounted
    /\ persisted = << <<<<"channel", "C1">>, <<"text", "hi">>>> >>
    /\ config.pipedreamConfiguredProps =
           JSON_stringify(<<<<"channel", "C1">>, <<"text", "hi">>>>)
    /\ timers = NoTimers

\* C24: from a change of the app or the action until the vendor form's next
\* emission, the config's pipedreamConfiguredProps is "{}", whatever timers
\* fire in between.
C24_StaleWriteNeverApplied ==
    awaitingEmission => config.pipedreamConfiguredProps = EmptyPropsJson

\* C25: lastSavedPropsJson, whenever non-empty, is the config's
\* pipedreamConfiguredProps; and props handed to the persist function while an
\* action is selected, whose serialization differs from the config's value,
\* are written.
C25_MarkerMatchesConfig ==
    /\ []((mounted /\ lastSavedPropsJson # EmptyString) =>
              lastSavedPropsJson = config.pipedreamConfiguredProps)
    /\ [][(/\ lastEvent'.ev \in {"timer", "unmount"}
           /\ Len(persisted') = 1
           /\ selectedComponent # Undefined
           /\ JSON_stringify(serializeProps(persisted'[1], serializedPropNames))
                  # config.pipedreamConfiguredProps) =>
              config'.pipedreamConfiguredProps =
                  JSON_stringify(serializeProps(persisted'[1], serializedPropNames))]_vars

\* C26: whatever apps and actions are chosen, props emitted, timers fired and
\* unmounts made, the config never holds a non-empty pipedreamComponentKey with
\* an empty pipedreamApp, and the mounted form never has a selected action
\* without a selected app.
C26_ActionImpliesApp ==
    /\ config.pipedreamComponentKey # "" => config.pipedreamApp # ""
    /\ mounted => (selectedComponent # Undefined => selectedApp # Undefined)

\* After an app change to github, the choice of its action, an emission and
\* the unmount, the config holds github's action with props.
C26_Witness ==
    /\ lastEvent.ev = "unmount"
    /\ config.pipedreamApp = "github"
    /\ config.pipedreamComponentKey = "github-create-issue"
    /\ config.pipedreamConfiguredProps = JSON_stringify(<<<<"channel", "C1">>>>)

\* C27: the form never raises, and a form mounted on a config whose
\* pipedreamConfiguredProps is text that is not JSON is on screen with the
\* empty mapping as its configured props.
C27_MalformedPropsTolerated ==
    /\ ~raised
    /\ (/\ lastEvent.ev = "mount"
        /\ config.pipedreamConfiguredProps # EmptyString
        /\ ~JSON_parse(config.pipedreamConfiguredProps).ok) =>
           mounted /\ configuredProps = EmptyObject

----------------------------------------------------------------------------
(* Properties of the Test button *)

\* The entries of a mapping whose value is defined.
DefinedOf(props) ==
    LET IsDefined(e) == e[2] # Undefined
    IN SelectSeq(props, IsDefined)

\* C13: handleTest with an action selected sets isTesting, shows nothing yet
\* and makes one runPipedreamAction call with the current external user ID,
\* the selected action's key and the current props re-serialized; when that
\* call settles exactly one notification is shown (success if it resolved,
\* "Test failed" with the error's message if it rejected) and isTesting is
\* false, in both outcomes.
C13_TestRunsOnce ==
    /\ [][(lastEvent'.ev = "handleTest" /\ selectedComponent # Undefined) =>
             /\ isTesting'
             /\ toasts' = <<>>
             /\ testCall' = [null |-> FALSE,
                             current |-> [externalUserId |-> externalUserId,
                                          componentKey |-> selectedComponent,
                                          configuredProps |-> DefinedOf(configuredProps)]]]_vars
    /\ [][lastEvent'.ev = "handleTestAwaited" =>
             /\ ~testCall.null /\ lastEvent'.call = testCall.current
             /\ testCall'.null
             /\ Len(lastEvent'.sdkCalls) <= 1
             /\ Len(toasts') = 1
             /\ IF client # NullClient /\ lastEvent'.vendor.kind = "resolve"
                THEN toasts'[1].kind = "success"
                ELSE toasts'[1] =
                         [kind |-> "error", title |-> "Test failed",
                          description |->
                              IF client = NullClient THEN "Pipedream is not configured."
                              ELSE lastEvent'.vendor.message]
             /\ ~isTesting']_vars

\* A test of slack-send-message by user-1 was rejected by the vendor; the
\* call carried the one defined prop, and the failure was notified.
C13_Witness ==
    /\ lastEvent.ev = "handleTestAwaited"
    /\ client # NullClient
    /\ lastEvent.vendor.kind = "reject"
    /\ lastEvent.call = [externalUserId |-> "user-1", componentKey |-> "slack-send-message",
                         configuredProps |-> <<<<"channel", "C1">>>>]
    /\ configuredProps = <<<<"channel", "C1">>, <<"text", Undefined>>>>
    /\ Len(lastEvent.sdkCalls) = 1
    /\ toasts = <<[kind |-> "error", title |-> "Test failed", description |-> "vendor error"]>>
    /\ ~isTesting

\* C14: handleTest with no action selected shows the error notification
\* "Please select an action first", makes no runPipedreamAction call and
\* leaves isTesting false.
C14_TestNeedsAction ==
    (lastEvent.ev = "handleTest" /\ selectedComponent = Undefined) =>
        /\ toasts = <<[kind |-> "error", title |-> "Please select an action first",
                       description |-> ""]>>
        /\ testCall.null
        /\ ~isTesting

\* handleTest ran on a form with the app slack and no action selected.
C14_Witness ==
    /\ lastEvent.ev = "handleTest"
    /\ selectedApp = "slack"
    /\ selectedComponent = Undefined
    /\ Len(toasts) = 1
    /\ testCall.null

----------------------------------------------------------------------------
(* The two instances of usePipedreamUserId, render by render *)

\* createFrontendClient(opts): the browser client, bound to a user ID.
createFrontendClient(opts) ==
    [type |-> "FrontendClient", externalUserId |-> opts.externalUserId]

\* PipedreamProvider's client of the current render (useMemo on the hook's ID).
frontendClient == createFrontendClient([externalUserId |-> providerUserId])

\* An effect of usePipedreamUserId has yet to run in some mounted instance:
\* its state differs from what the session gives.
EffectPending ==
    \/ providerUserId # usePipedreamUserId(sessionUserId)
    \/ mounted /\ externalUserId # usePipedreamUserId(sessionUserId)

\* The application starts: the provider has rendered once, the session is
\* still loading, no node is open.
InitUserId ==
    /\ ServerOn \/ ServerOff
    /\ FormOff

\* useSession delivers a session, or its end: a render with the hooks'
\* states as they were.
SessionRender ==
    \E session \in {Undefined} \cup FormUserIds :
        /\ ~EffectPending
        /\ session # sessionUserId
        /\ sessionUserId' = session
        /\ lastEvent' = [ev |-> "sessionRender"]
        /\ persisted' = <<>>
        /\ UNCHANGED <<config, mounted, raised, externalUserId, selectedApp,
                       selectedComponent, configuredProps, lastSavedPropsJson,
                       lastSavedComponentKey, initialPropsCountRef,
                       hasReceivedUserInputRef, timeoutRef, pendingPropsRef, timers,
                       testVars, providerVars, settingsVars, userProps, edited, awaitingEmission, accepted,
                       serverVars>>

\* A node is selected: the first render of the form on its config, the
\* hook's state at its initial value.
FormMountRender ==
    \E cfg \in InitConfigs :
        /\ ~mounted
        /\ ~EffectPending
        /\ testCall.null
        /\ SetForm(Mounted(cfg))
        /\ mounted' = ~Mounted(cfg).raised
        /\ externalUserId' = "anonymous"
        /\ lastEvent' = [ev |-> "mountRender"]
        /\ userProps' = Mounted(cfg).configuredProps
        /\ edited' = FALSE
        /\ awaitingEmission' = FALSE
        /\ accepted' = NullRef
        /\ UNCHANGED <<sessionUserId, testVars, providerVars, settingsVars, serverVars>>

\* The effects of the last commit run, in every mounted instance of the
\* hook, and the components render again.
HookEffects ==
    /\ EffectPending
    /\ providerUserId' = usePipedreamUserId(sessionUserId)
    /\ externalUserId' = IF mounted THEN usePipedreamUserId(sessionUserId)
                         ELSE externalUserId
    /\ lastEvent' = [ev |-> "effects"]
    /\ persisted' = <<>>
    /\ UNCHANGED <<config, mounted, raised, sessionUserId, selectedApp,
                   selectedComponent, configuredProps, lastSavedPropsJson,
                   lastSavedComponentKey, initialPropsCountRef,
                   hasReceivedUserInputRef, timeoutRef, pendingPropsRef, timers,
                   testVars, userProps, edited, awaitingEmission, accepted, serverVars, settingsVars>>

\* The user's and the vendor's events, handled once the effects have run.
NodeClosed == ~EffectPending /\ timers = NoTimers /\ Unmount
ActionPicked == ~EffectPending /\ timers = NoTimers /\ ComponentChange
TestClicked == ~EffectPending /\ TestPress
TestAnswered == ~EffectPending /\ TestSettle

NextUserId ==
    \/ SessionRender \/ FormMountRender \/ HookEffects
    \/ NodeClosed \/ ActionPicked \/ TestClicked \/ TestAnswered

SpecUserId == InitUserId /\ [][NextUserId]_vars

\* C17: in every render in which the form is mounted, the external user ID
\* the form uses (for the vendor form and for Test) is the one the
\* provider's current frontend client was created with.
C17_SameUserId ==
    mounted => externalUserId = frontendClient.externalUserId

----------------------------------------------------------------------------
(* plugins/pipedream/settings.tsx: the settings panel *)

\* What the server sends for an error: a page that is not JSON.
ErrorPage == <<"<html>", "Internal Server Error", "</html>">>

\* What the panel's fetch can come to: the status route's response, an
\* error page, a network failure.
FetchOutcomes ==
    {[kind |-> "response", body |-> GET],
     [kind |-> "response", body |-> ErrorPage],
     [kind |-> "reject"]}

\* checkStatus from the awaited fetch on: the catch block gives "disabled".
checkStatusSettled(outcome) ==
    IF outcome.kind = "reject" THEN "disabled" ELSE checkStatus(outcome.body)

MsgChecking == "Checking Pipedream status..."
MsgEnabled == "Pipedream is enabled"
MsgNotConfigured == "Pipedream is not configured"

\* What PipedreamSettings renders for a status: its headline.
PipedreamSettings(st) ==
    IF st = "loading" THEN MsgChecking
    ELSE IF st = "enabled" THEN MsgEnabled
    ELSE MsgNotConfigured

\* The panel is opened: first render, and the effect starts the fetch.
SettingsMount ==
    /\ ~settingsMounted
    /\ settingsMounted' = TRUE
    /\ status' = "loading"
    /\ statusFetch' = TRUE
    /\ lastEvent' = [ev |-> "settingsMount"]
    /\ UNCHANGED <<serverVars, formVars, providerVars, persisted, userProps, edited, awaitingEmission,
                   accepted>>

\* The fetch settles and checkStatus sets the status.
SettingsSettle ==
    \E outcome \in FetchOutcomes :
        /\ statusFetch
        /\ statusFetch' = FALSE
        /\ status' = checkStatusSettled(outcome)
        /\ lastEvent' = [ev |-> "checkStatus", outcome |-> outcome]
        /\ UNCHANGED <<settingsMounted, serverVars, formVars, providerVars, persisted,
                       userProps, edited, awaitingEmission, accepted>>

\* The panel is closed; a fetch still in flight settles into nothing.
SettingsUnmount ==
    /\ settingsMounted
    /\ settingsMounted' = FALSE
    /\ statusFetch' = FALSE
    /\ lastEvent' = [ev |-> "settingsUnmount"]
    /\ UNCHANGED <<status, serverVars, formVars, providerVars, persisted, userProps,
                   edited, awaitingEmission, accepted>>

NextSettings == SettingsMount \/ SettingsSettle \/ SettingsUnmount

\* The fetch settles in the end (it resolves, or it rejects).
SpecSettings == InitServer /\ [][NextSettings]_vars /\ WF_vars(SettingsSettle)

\* C23: the panel's status is "loading" from mount until the fetch settles
\* and changes then, once: to "enabled" iff the status route answered and its
\* enabled flag is truthy (the three credentials are set), to "disabled"
\* otherwise, an error page and a failed request included; a status other than
\* "loading" never changes while the panel is mounted; the panel renders "not
\* configured" exactly when the status is "disabled"; a mounted panel does
\* leave "loading".
C23_StatusSettlesOnce ==
    /\ [][lastEvent'.ev = "settingsMount" => status' = "loading"]_vars
    /\ []((settingsMounted /\ statusFetch) => status = "loading")
    /\ [][lastEvent'.ev = "checkStatus" =>
             /\ status = "loading"
             /\ status' = IF /\ lastEvent'.outcome.kind = "response"
                             /\ lastEvent'.outcome.body # ErrorPage
                             /\ Truthy(isPipedreamConfigured)
                          THEN "enabled" ELSE "disabled"]_vars
    /\ [][(settingsMounted /\ settingsMounted' /\ status # "loading") =>
             status' = status]_vars
    /\ [](settingsMounted =>
             (PipedreamSettings(status) = MsgNotConfigured <=> status = "disabled"))
    /\ (settingsMounted /\ status = "loading") ~> (status # "loading" \/ ~settingsMounted)

\* On a configured server the request failed and the panel shows "not
\* configured".
C23_Witness ==
    /\ settingsMounted
    /\ lastEvent.ev = "checkStatus"
    /\ lastEvent.outcome.kind = "reject"
    /\ Truthy(isPipedreamConfigured)
    /\ status = "disabled"
    /\ PipedreamSettings(status) = MsgNotConfigured

====
